---- MODULE Spec2Model ----
(***************************************************************************)
(* Model of tcpserve (src/server.go, first revision in the file, lines     *)
(* 1-197): the Server's Start task (bind, accept loop, inline read loop,   *)
(* cleanup, deferred listener close), the Stop operation running on        *)
(* another goroutine, and the clients as environment.                      *)
(*                                                                         *)
(* A Go panic in Start after the defer of line 133 is installed unwinds    *)
(* through that deferred function (ln.Close, wg.Done) before the process   *)
(* exits; other goroutines keep running meanwhile.  A runtime fatal error  *)
(* (concurrent map access) and a panic on the Stop goroutine end the       *)
(* process at once.                                                        *)
(***************************************************************************)
EXTENDS Integers, Sequences, FiniteSets, TLC

\* ---------------------------------------------------------------- bounds
MaxConns == 2      \* client connection attempts in one run
MaxSends == 2      \* chunks the clients send in one run
MaxPayload == 2    \* payload bytes after the header in the longest chunk
MaxSessions == 3   \* Session objects a caller holds
MaxCalls == 2      \* Session and broadcast calls in one run

\* ------------------------------------------------------ program constants
HeaderLen == 4     \* buf[4:n]

Nil == -1
Handles == 0 .. (MaxConns - 1)

\* The chunks one Read can return: shorter than the header, exactly the
\* header, header plus payload.  Byte i of a chunk has value i.
Chunk(len) == [i \in 1 .. len |-> i]
Chunks == {Chunk(HeaderLen - 2), Chunk(HeaderLen), Chunk(HeaderLen + MaxPayload)}

\* A caller-supplied Codec (type Codec func([]byte)): rewrites the slice in
\* place; the sample codec complements every byte.
Decrypt(data) == [i \in 1 .. Len(data) |-> 255 - data[i]]

\* line 160: buf := make([]byte, 2048); Read fills its first n bytes with
\* the chunk, the rest stays zero (one zero byte stands for that rest).
ReadBuf(chunk) == chunk \o <<0>>

\* data := buf[4:n]  (defined only for n >= 4)
Slice4_WholeRead(buf, n) == SubSeq(buf, 1, n)
Slice4(buf, n) == SubSeq(buf, HeaderLen + 1, n)

\* line 168: s.onPacket(conn, data), called in the read loop itself
Deliver_Front(packets, data) == <<data>> \o packets
Deliver(packets, data) == Append(packets, data)

\* buf[4:n] panics when the high bound is below the low bound
SliceOutOfRange(n) == n < HeaderLen

VARIABLES
    connections,   \* s.connections : id -> connection handle
    isAlive,       \* s.isAlive
    countConn,     \* s.countConn
    wg,            \* counter of s.wg
    ln,            \* s.ln : "nil", "open", "closed"
    errLogSet,     \* s.errLog # nil (fixed by WithLoggers)
    startPC,       \* position of the goroutine running Start
    conn,          \* Start's local conn (Nil after a failed Accept)
    connId,        \* Start's local connId
    startErr,      \* Start's result err # nil
    panicking,     \* reason of the panic unwinding Start, or "none"
    stopPC,        \* position of the goroutine running Stop
    stopVisited,   \* ids the range loop of Stop has produced
    raced,         \* ids inserted while Stop was ranging over the map
    stopErr,       \* Stop's result err # nil
    stopWoken,     \* the semaphore of wg.Wait was released
    crashed,       \* reason the process died, or "none"
    backlog,       \* connections established but not yet accepted
    nConnects,     \* client connection attempts so far
    nAccepted,     \* connections Accept has returned so far
    connState,     \* handle -> "none", "open", "closed" (server side)
    peerClosed,    \* handle -> the client closed its end
    inbox,         \* handle -> chunks in flight to the server
    nSent,         \* chunks the clients have sent so far
    issued,        \* history: ids issued, in order
    connectedCount,\* history: handle -> calls of onConnected
    readCount,     \* history: handle -> calls of conn.Read
    delivered,     \* history: handle -> payloads handed to onPacket
    readLog,       \* history: handle -> chunks Read has returned, in order
    sessRegistry,  \* sessions held in the registry that WriteToAll walks
    sessBroken,    \* sessions whose transport fails every write
    sessEncrypter, \* Session.encrypt: "default" or "custom"
    wire,          \* session -> the writes its transport has received
    nCalls,        \* Session and broadcast calls made so far
    lastCall       \* the last such call and what it returned

vars == <<connections, isAlive, countConn, wg, ln, errLogSet, startPC, conn,
          connId, startErr, panicking, stopPC, stopVisited, raced, stopErr,
          stopWoken, crashed, backlog, nConnects, nAccepted, connState,
          peerClosed, inbox, nSent, issued, connectedCount, readCount,
          delivered, readLog, sessRegistry, sessBroken, sessEncrypter, wire,
          nCalls, lastCall>>

serverVars == <<connections, isAlive, countConn, wg, ln>>
startVars == <<startPC, conn, connId, startErr, panicking>>
stopVars == <<stopPC, stopVisited, raced, stopErr, stopWoken>>
netVars == <<backlog, nConnects, nAccepted, connState, peerClosed, inbox, nSent>>
histVars == <<issued, connectedCount, readCount, delivered, readLog>>
sessVars == <<sessRegistry, sessBroken, sessEncrypter, wire, nCalls, lastCall>>

Running == crashed = "none"

\* ---------------------------------------------------------------- NewServer
\* NewServer with WithLoggers(logger, errLogger), logger non-nil: s.errLog is
\* assigned only when errLogger is nil.
WithLoggers(errLoggerIsNil) == errLoggerIsNil

ServerInit ==
    /\ connections = << >>
    /\ isAlive = FALSE
    /\ countConn = 0
    /\ wg = 0
    /\ ln = "nil"
    /\ \E errLoggerIsNil \in BOOLEAN : errLogSet = WithLoggers(errLoggerIsNil)
    /\ startPC = "init"
    /\ conn = Nil
    /\ connId = Nil
    /\ startErr = FALSE
    /\ panicking = "none"
    /\ stopPC = "idle"
    /\ stopVisited = {}
    /\ raced = {}
    /\ stopErr = FALSE
    /\ stopWoken = FALSE
    /\ crashed = "none"
    /\ backlog = 0
    /\ nConnects = 0
    /\ nAccepted = 0
    /\ connState = [h \in Handles |-> "none"]
    /\ peerClosed = [h \in Handles |-> FALSE]
    /\ inbox = [h \in Handles |-> << >>]
    /\ nSent = 0
    /\ issued = << >>
    /\ connectedCount = [h \in Handles |-> 0]
    /\ readCount = [h \in Handles |-> 0]
    /\ delivered = [h \in Handles |-> << >>]
    /\ readLog = [h \in Handles |-> << >>]

\* ------------------------------------------------------------------ Session
Sessions == 0 .. (MaxSessions - 1)
Payloads == {<<1, 2, 3>>, <<7>>}
NoCall == [op |-> "none", target |-> Nil, data |-> << >>, err |-> FALSE]

\* The encrypt hook of a Session: the default set by NewSession leaves the
\* bytes alone, a hook installed by the caller rewrites them (the sample
\* hook complements every byte).
Encrypt(enc, data) ==
    IF enc = "custom" THEN [i \in 1 .. Len(data) |-> 255 - data[i]] ELSE data

\* s.conn.Write(bytes): one write on the transport, or an error and nothing
\* written when the transport is broken.
ConnWriteFails(h) == h \in sessBroken
ConnWrite(w, h, bytes) ==
    IF ConnWriteFails(h) THEN w ELSE [w EXCEPT ![h] = Append(@, bytes)]

\* Session.Write(data), session.go: return s.conn.Write(data)
WriteOut(w, h, data) == ConnWrite(w, h, data)

\* Session.Write(data), the Codec revision: res := s.codec.Encrypt(data);
\* return s.conn.Write(res)
WriteCodecOut(w, h, data) == ConnWrite(w, h, Encrypt(sessEncrypter, data))

\* Session.WriteRaw(data): return s.conn.Write(data)
WriteRawOut(w, h, data) == ConnWrite(w, h, data)

\* No Session call is made in a run of the server alone.
SessionIdle ==
    /\ sessRegistry = {}
    /\ sessBroken = {}
    /\ sessEncrypter = "default"
    /\ wire = [h \in Sessions |-> << >>]
    /\ nCalls = 0
    /\ lastCall = NoCall

Init == ServerInit /\ SessionIdle

\* Sessions as a caller can hold them: any of them registered, any transport
\* broken, the encrypt hook left at its default or installed.
SessionInit ==
    /\ ServerInit
    /\ sessRegistry \in SUBSET Sessions
    /\ sessBroken \in SUBSET Sessions
    /\ sessEncrypter \in {"default", "custom"}
    /\ wire = [h \in Sessions |-> << >>]
    /\ nCalls = 0
    /\ lastCall = NoCall

serverAll == <<serverVars, errLogSet, startVars, stopVars, crashed, netVars,
               histVars>>

SessionWrite(h, data) ==
    /\ nCalls < MaxCalls
    /\ nCalls' = nCalls + 1
    /\ wire' = WriteOut(wire, h, data)
    /\ lastCall' = [op |-> "Write", target |-> h, data |-> data,
                    err |-> ConnWriteFails(h)]
    /\ UNCHANGED <<serverAll, sessRegistry, sessBroken, sessEncrypter>>

SessionWriteCodec(h, data) ==
    /\ nCalls < MaxCalls
    /\ nCalls' = nCalls + 1
    /\ wire' = WriteCodecOut(wire, h, data)
    /\ lastCall' = [op |-> "Write", target |-> h, data |-> data,
                    err |-> ConnWriteFails(h)]
    /\ UNCHANGED <<serverAll, sessRegistry, sessBroken, sessEncrypter>>

SessionWriteRaw(h, data) ==
    /\ nCalls < MaxCalls
    /\ nCalls' = nCalls + 1
    /\ wire' = WriteRawOut(wire, h, data)
    /\ lastCall' = [op |-> "WriteRaw", target |-> h, data |-> data,
                    err |-> ConnWriteFails(h)]
    /\ UNCHANGED <<serverAll, sessRegistry, sessBroken, sessEncrypter>>

\* The orders in which a walk over the registry can produce its sessions.
Orders(S) ==
    {o \in [1 .. Cardinality(S) -> S] :
        \A i, j \in 1 .. Cardinality(S) : i # j => o[i] # o[j]}

\* WriteToAll gives up at the first session whose write fails
RECURSIVE FanOut_AbortOnError(_, _, _)
FanOut_AbortOnError(order, data, w) ==
    IF order = << >> \/ ConnWriteFails(Head(order)) THEN w
    ELSE FanOut_AbortOnError(Tail(order), data, WriteOut(w, Head(order), data))

\* WriteToAll: Session.Write on each session of the snapshot, a failed write
\* is logged and the walk goes on.
RECURSIVE FanOut(_, _, _)
FanOut(order, data, w) ==
    IF order = << >> THEN w
    ELSE FanOut(Tail(order), data, WriteOut(w, Head(order), data))

\* WriteToAll(data): returns nothing to the caller
WriteToAll(data) ==
    /\ nCalls < MaxCalls
    /\ nCalls' = nCalls + 1
    /\ \E order \in Orders(sessRegistry) : wire' = FanOut(order, data, wire)
    /\ lastCall' = [op |-> "WriteToAll", target |-> Nil, data |-> data,
                    err |-> FALSE]
    /\ UNCHANGED <<serverAll, sessRegistry, sessBroken, sessEncrypter>>

SessionNext ==
    \/ \E h \in Sessions, data \in Payloads : SessionWrite(h, data)
    \/ \E h \in Sessions, data \in Payloads : SessionWriteCodec(h, data)
    \/ \E h \in Sessions, data \in Payloads : SessionWriteRaw(h, data)
    \/ \E data \in Payloads : WriteToAll(data)

SessionSpec == SessionInit /\ [][SessionNext]_vars

\* ------------------------------------------------------------ sync.WaitGroup
\* wg.Done(): the counter after the call; a negative counter panics; reaching
\* zero releases a goroutine blocked in wg.Wait.
WgAfterDone == wg - 1
WgDoneReleases == stopPC = "waiting" /\ WgAfterDone = 0

\* A write to s.connections while Stop ranges over it is a data race: the
\* runtime may detect it (fatal error) or not.
MapRace == stopPC \in {"iter", "iterDone"}

\* A panic on the Start goroutine once the defer of line 133 is installed.
StartPanics(reason) ==
    /\ panicking' = reason
    /\ startPC' = "deferClose"

\* -------------------------------------------------------------------- Start
\* lines 124-130: wg.Add(1), successful net.Listen, isAlive = true
StartBind ==
    /\ Running /\ startPC = "init"
    /\ wg' = wg + 1
    /\ ln' = "open"
    /\ isAlive' = TRUE
    /\ startPC' = "loopTest"
    /\ UNCHANGED <<connections, countConn, errLogSet, conn, connId, startErr,
                   panicking, crashed>>
    /\ UNCHANGED <<stopVars, netVars, histVars>>
    /\ UNCHANGED sessVars

\* lines 124-128: wg.Add(1), net.Listen fails, return err
StartBindFail ==
    /\ Running /\ startPC = "init"
    /\ wg' = wg + 1
    /\ startErr' = TRUE
    /\ startPC' = "returned"
    /\ UNCHANGED <<connections, isAlive, countConn, ln, errLogSet, conn, connId,
                   panicking, crashed>>
    /\ UNCHANGED <<stopVars, netVars, histVars>>
    /\ UNCHANGED sessVars

\* line 139: for s.isAlive
StartLoopTest ==
    /\ Running /\ startPC = "loopTest"
    /\ startPC' = IF isAlive THEN "add" ELSE "deferClose"
    /\ UNCHANGED <<serverVars, errLogSet, conn, connId, startErr, panicking,
                   crashed>>
    /\ UNCHANGED <<stopVars, netVars, histVars>>
    /\ UNCHANGED sessVars

\* line 140: s.wg.Add(1)
StartAdd ==
    /\ Running /\ startPC = "add"
    /\ wg' = wg + 1
    /\ startPC' = "accept"
    /\ UNCHANGED <<connections, isAlive, countConn, ln, errLogSet, conn, connId,
                   startErr, panicking, crashed>>
    /\ UNCHANGED <<stopVars, netVars, histVars>>
    /\ UNCHANGED sessVars

\* line 142: Accept returns an established connection
StartAccept ==
    /\ Running /\ startPC = "accept"
    /\ ln = "open" /\ backlog > 0
    /\ backlog' = backlog - 1
    /\ conn' = nAccepted
    /\ nAccepted' = nAccepted + 1
    /\ connState' = [connState EXCEPT ![nAccepted] = "open"]
    /\ startPC' = "insert"
    /\ UNCHANGED <<serverVars, errLogSet, connId, startErr, panicking, crashed>>
    /\ UNCHANGED <<stopVars, nConnects, peerClosed, inbox, nSent, histVars>>
    /\ UNCHANGED sessVars

\* lines 142-144: Accept returns (nil, err) because the listener has been
\* closed; conn.Close() on the nil conn panics.
StartAcceptClosed ==
    /\ Running /\ startPC = "accept"
    /\ ln = "closed"
    /\ conn' = Nil
    /\ StartPanics("nilConnClosed")
    /\ UNCHANGED <<serverVars, errLogSet, connId, startErr, crashed>>
    /\ UNCHANGED <<stopVars, netVars, histVars>>
    /\ UNCHANGED sessVars

\* lines 142-144: Accept returns (nil, err) for a transient fault while the
\* listener is open; conn.Close() on the nil conn panics.
StartAcceptFault ==
    /\ Running /\ startPC = "accept"
    /\ ln = "open"
    /\ conn' = Nil
    /\ StartPanics("nilConnFault")
    /\ UNCHANGED <<serverVars, errLogSet, connId, startErr, crashed>>
    /\ UNCHANGED <<stopVars, netVars, histVars>>
    /\ UNCHANGED sessVars

\* line 152: s.countConn += 1
CountAfterIssue_Stuck(c) == c
CountAfterIssue(c) == c + 1

\* line 150: s.connections[id] = c
MapPut(m, id, c) == (id :> c) @@ [i \in (DOMAIN m) \ {id} |-> m[i]]

\* line 173: delete(s.connections, id)
MapDelete_Keep(m, id) == m
MapDelete(m, id) == [i \in (DOMAIN m) \ {id} |-> m[i]]

\* lines 150-153: s.connections[s.countConn] = conn; connId; countConn += 1
StartRegister ==
    /\ Running /\ startPC = "insert"
    /\ \/ /\ connections' = MapPut(connections, countConn, conn)
          /\ connId' = countConn
          /\ countConn' = CountAfterIssue(countConn)
          /\ issued' = Append(issued, countConn)
          /\ raced' = IF MapRace THEN raced \cup {countConn} ELSE raced
          /\ startPC' = "onConnected"
          /\ UNCHANGED crashed
       \/ /\ MapRace
          /\ crashed' = "concurrentMap"
          /\ UNCHANGED <<connections, connId, countConn, issued, raced, startPC>>
    /\ UNCHANGED <<isAlive, wg, ln, errLogSet, conn, startErr, panicking>>
    /\ UNCHANGED <<stopPC, stopVisited, stopErr, stopWoken>>
    /\ UNCHANGED <<netVars, connectedCount, readCount, delivered, readLog>>
    /\ UNCHANGED sessVars

\* line 155 left out: the callback is not invoked before reading
StartOnConnected_Skipped ==
    /\ Running /\ startPC = "onConnected"
    /\ startPC' = "read"
    /\ UNCHANGED <<serverVars, errLogSet, conn, connId, startErr, panicking,
                   crashed>>
    /\ UNCHANGED <<stopVars, netVars, histVars>>
    /\ UNCHANGED sessVars

\* line 155: s.onConnected(conn)
StartOnConnected ==
    /\ Running /\ startPC = "onConnected"
    /\ connectedCount' = [connectedCount EXCEPT ![conn] = @ + 1]
    /\ startPC' = "read"
    /\ UNCHANGED <<serverVars, errLogSet, conn, connId, startErr, panicking,
                   crashed>>
    /\ UNCHANGED <<stopVars, netVars, issued, readCount, delivered, readLog>>
    /\ UNCHANGED sessVars

\* lines 160-168: a Read that returns n bytes and no error
StartReadPacket ==
    /\ Running /\ startPC = "read"
    /\ connState[conn] = "open" /\ inbox[conn] # << >>
    /\ LET chunk == Head(inbox[conn])
           buf == ReadBuf(chunk)
           n == Len(chunk)
       IN  /\ inbox' = [inbox EXCEPT ![conn] = Tail(@)]
           /\ readCount' = [readCount EXCEPT ![conn] = @ + 1]
           /\ readLog' = [readLog EXCEPT ![conn] = Append(@, chunk)]
           /\ IF SliceOutOfRange(n)
                 THEN /\ StartPanics("sliceBounds")
                      /\ UNCHANGED delivered
                 ELSE /\ delivered' = [delivered EXCEPT
                                         ![conn] = Deliver(@, Decrypt(Slice4(buf, n)))]
                      /\ UNCHANGED <<startPC, panicking>>
    /\ UNCHANGED <<serverVars, errLogSet, conn, connId, startErr, crashed>>
    /\ UNCHANGED <<stopVars, backlog, nConnects, nAccepted, connState,
                   peerClosed, nSent, issued, connectedCount>>
    /\ UNCHANGED sessVars

\* lines 161-165: Read returns an error (connection closed locally by Stop,
\* or end of stream); s.errLog is called, then break.
StartReadError ==
    /\ Running /\ startPC = "read"
    /\ \/ connState[conn] = "closed"
       \/ peerClosed[conn] /\ inbox[conn] = << >>
    /\ readCount' = [readCount EXCEPT ![conn] = @ + 1]
    /\ IF errLogSet
          THEN startPC' = "closeConn" /\ UNCHANGED panicking
          ELSE StartPanics("nilErrLog")
    /\ UNCHANGED <<serverVars, errLogSet, conn, connId, startErr, crashed>>
    /\ UNCHANGED <<stopVars, netVars, issued, connectedCount, delivered,
                   readLog>>
    /\ UNCHANGED sessVars

\* line 172: conn.Close(); unread data of the socket is discarded
StartCloseConn ==
    /\ Running /\ startPC = "closeConn"
    /\ connState' = [connState EXCEPT ![conn] = "closed"]
    /\ inbox' = [inbox EXCEPT ![conn] = << >>]
    /\ startPC' = "delete"
    /\ UNCHANGED <<serverVars, errLogSet, conn, connId, startErr, panicking,
                   crashed>>
    /\ UNCHANGED <<stopVars, backlog, nConnects, nAccepted, peerClosed, nSent,
                   histVars>>
    /\ UNCHANGED sessVars

\* line 173: delete(s.connections, connId)
StartDelete ==
    /\ Running /\ startPC = "delete"
    /\ \/ /\ connections' = MapDelete(connections, connId)
          /\ startPC' = "release"
          /\ UNCHANGED crashed
       \/ /\ MapRace
          /\ crashed' = "concurrentMap"
          /\ UNCHANGED <<connections, startPC>>
    /\ UNCHANGED <<isAlive, countConn, wg, ln, errLogSet, conn, connId, startErr,
                   panicking>>
    /\ UNCHANGED <<stopVars, netVars, histVars>>
    /\ UNCHANGED sessVars

\* line 174: s.wg.Done()
StartRelease ==
    /\ Running /\ startPC = "release"
    /\ wg' = WgAfterDone
    /\ stopWoken' = (stopWoken \/ WgDoneReleases)
    /\ IF WgAfterDone < 0
          THEN StartPanics("negativeWG")
          ELSE startPC' = "loopTest" /\ UNCHANGED panicking
    /\ UNCHANGED <<connections, isAlive, countConn, ln, errLogSet, conn, connId,
                   startErr, crashed>>
    /\ UNCHANGED <<stopPC, stopVisited, raced, stopErr>>
    /\ UNCHANGED <<netVars, histVars>>
    /\ UNCHANGED sessVars

\* line 134 (deferred): s.ln.Close()
StartDeferClose ==
    /\ Running /\ startPC = "deferClose"
    /\ ln' = "closed"
    /\ backlog' = 0
    /\ startPC' = "deferDone"
    /\ UNCHANGED <<connections, isAlive, countConn, wg, errLogSet, conn, connId,
                   startErr, panicking, crashed>>
    /\ UNCHANGED <<stopVars, nConnects, nAccepted, connState, peerClosed, inbox,
                   nSent, histVars>>
    /\ UNCHANGED sessVars

\* line 135 (deferred): s.wg.Done(); then Start returns, unless a panic is
\* unwinding (or the counter went negative here): then the runtime goes on to
\* report the panic and exit.
StartDeferDone ==
    /\ Running /\ startPC = "deferDone"
    /\ wg' = WgAfterDone
    /\ stopWoken' = (stopWoken \/ WgDoneReleases)
    /\ IF panicking = "none" /\ WgAfterDone >= 0
          THEN startPC' = "returned" /\ UNCHANGED panicking
          ELSE /\ startPC' = "fatal"
               /\ panicking' = IF panicking # "none" THEN panicking
                                ELSE "negativeWG"
    /\ UNCHANGED <<connections, isAlive, countConn, ln, errLogSet, conn, connId,
                   startErr, crashed>>
    /\ UNCHANGED <<stopPC, stopVisited, raced, stopErr>>
    /\ UNCHANGED <<netVars, histVars>>
    /\ UNCHANGED sessVars

\* the unrecovered panic ends the process
StartExit ==
    /\ Running /\ startPC = "fatal"
    /\ crashed' = panicking
    /\ UNCHANGED <<serverVars, errLogSet, startVars>>
    /\ UNCHANGED <<stopVars, netVars, histVars>>
    /\ UNCHANGED sessVars

\* --------------------------------------------------------------------- Stop
\* Stop is called once, on a server that is listening.
StopCall ==
    /\ Running /\ stopPC = "idle"
    /\ isAlive
    /\ stopPC' = "iter"
    /\ UNCHANGED <<serverVars, errLogSet, startVars, crashed>>
    /\ UNCHANGED <<stopVisited, raced, stopErr, stopWoken>>
    /\ UNCHANGED <<netVars, histVars>>
    /\ UNCHANGED sessVars

\* lines 182-183: the range loop produces an entry; connection.Close()
\* (unread data of the socket is discarded)
StopCloseConn(id) ==
    /\ Running /\ stopPC = "iter"
    /\ id \in (DOMAIN connections) \ stopVisited
    /\ connState' = [connState EXCEPT ![connections[id]] = "closed"]
    /\ inbox' = [inbox EXCEPT ![connections[id]] = << >>]
    /\ stopVisited' = stopVisited \cup {id}
    /\ stopPC' = "iterDone"
    /\ UNCHANGED <<serverVars, errLogSet, startVars, crashed>>
    /\ UNCHANGED <<raced, stopErr, stopWoken>>
    /\ UNCHANGED <<backlog, nConnects, nAccepted, peerClosed, nSent, histVars>>
    /\ UNCHANGED sessVars

\* line 184: s.wg.Done()
StopRelease ==
    /\ Running /\ stopPC = "iterDone"
    /\ wg' = WgAfterDone
    /\ crashed' = IF WgAfterDone < 0 THEN "negativeWG" ELSE "none"
    /\ stopPC' = "iter"
    /\ UNCHANGED <<connections, isAlive, countConn, ln, errLogSet, startVars>>
    /\ UNCHANGED <<stopVisited, raced, stopErr, stopWoken>>
    /\ UNCHANGED <<netVars, histVars>>
    /\ UNCHANGED sessVars

\* lines 185-188: the range loop ends (an entry inserted during the loop may
\* be skipped); s.isAlive = false
StopClearAlive ==
    /\ Running /\ stopPC = "iter"
    /\ ((DOMAIN connections) \ stopVisited) \subseteq raced
    /\ isAlive' = FALSE
    /\ stopPC' = "closeLn"
    /\ UNCHANGED <<connections, countConn, wg, ln, errLogSet, startVars, crashed>>
    /\ UNCHANGED <<stopVisited, raced, stopErr, stopWoken>>
    /\ UNCHANGED <<netVars, histVars>>
    /\ UNCHANGED sessVars

\* line 191: err = s.ln.Close(); closing a closed listener is an error
StopCloseListener ==
    /\ Running /\ stopPC = "closeLn"
    /\ stopErr' = (ln = "closed")
    /\ ln' = "closed"
    /\ backlog' = 0
    /\ stopPC' = "waitCall"
    /\ UNCHANGED <<connections, isAlive, countConn, wg, errLogSet, startVars,
                   crashed>>
    /\ UNCHANGED <<stopVisited, raced, stopWoken>>
    /\ UNCHANGED <<nConnects, nAccepted, connState, peerClosed, inbox, nSent,
                   histVars>>
    /\ UNCHANGED sessVars

\* line 194: s.wg.Wait() returns at once on a zero counter, else blocks
StopWait ==
    /\ Running /\ stopPC = "waitCall"
    /\ stopPC' = IF wg = 0 THEN "returned" ELSE "waiting"
    /\ UNCHANGED <<serverVars, errLogSet, startVars, crashed>>
    /\ UNCHANGED <<stopVisited, raced, stopErr, stopWoken>>
    /\ UNCHANGED <<netVars, histVars>>
    /\ UNCHANGED sessVars

\* lines 194-196: the blocked Wait is released; return
StopReturn ==
    /\ Running /\ stopPC = "waiting"
    /\ stopWoken
    /\ stopPC' = "returned"
    /\ UNCHANGED <<serverVars, errLogSet, startVars, crashed>>
    /\ UNCHANGED <<stopVisited, raced, stopErr, stopWoken>>
    /\ UNCHANGED <<netVars, histVars>>
    /\ UNCHANGED sessVars

\* ------------------------------------------------------------------ clients
ClientConnect ==
    /\ Running /\ ln = "open"
    /\ nConnects < MaxConns
    /\ nConnects' = nConnects + 1
    /\ backlog' = backlog + 1
    /\ UNCHANGED <<serverVars, errLogSet, startVars, stopVars, crashed>>
    /\ UNCHANGED <<nAccepted, connState, peerClosed, inbox, nSent, histVars>>
    /\ UNCHANGED sessVars

ClientSend(h, chunk) ==
    /\ Running /\ connState[h] = "open" /\ ~peerClosed[h]
    /\ nSent < MaxSends
    /\ nSent' = nSent + 1
    /\ inbox' = [inbox EXCEPT ![h] = Append(@, chunk)]
    /\ UNCHANGED <<serverVars, errLogSet, startVars, stopVars, crashed>>
    /\ UNCHANGED <<backlog, nConnects, nAccepted, connState, peerClosed, histVars>>
    /\ UNCHANGED sessVars

ClientClose(h) ==
    /\ Running /\ connState[h] = "open" /\ ~peerClosed[h]
    /\ peerClosed' = [peerClosed EXCEPT ![h] = TRUE]
    /\ UNCHANGED <<serverVars, errLogSet, startVars, stopVars, crashed>>
    /\ UNCHANGED <<backlog, nConnects, nAccepted, connState, inbox, nSent, histVars>>
    /\ UNCHANGED sessVars

StartStep ==
    \/ StartBind
    \/ StartBindFail
    \/ StartLoopTest
    \/ StartAdd
    \/ StartAccept
    \/ StartAcceptClosed
    \/ StartAcceptFault
    \/ StartRegister
    \/ StartOnConnected
    \/ StartReadPacket
    \/ StartReadError
    \/ StartCloseConn
    \/ StartDelete
    \/ StartRelease
    \/ StartDeferClose
    \/ StartDeferDone
    \/ StartExit

StopStep ==
    \/ StopCall
    \/ \E id \in 0 .. (MaxConns - 1) : StopCloseConn(id)
    \/ StopRelease
    \/ StopClearAlive
    \/ StopCloseListener
    \/ StopWait
    \/ StopReturn

ClientStep ==
    \/ ClientConnect
    \/ \E h \in Handles, chunk \in Chunks : ClientSend(h, chunk)
    \/ \E h \in Handles : ClientClose(h)

Next == StartStep \/ StopStep \/ ClientStep

Spec == Init /\ [][Next]_vars

\* The Go scheduler runs every runnable goroutine: the Start task and the
\* Stop task each take a step when one stays possible.  Clients are free.
FairSpec == Spec /\ WF_vars(StartStep) /\ WF_vars(StopStep)

\* ------------------------------------------------------------------ C1
\* C1: at the moment Stop returns, the registry is empty, the listener is
\* closed and no connection read loop is running.
ReadLoopRunning == startPC = "read"
StopReturnsNow == stopPC # "returned" /\ stopPC' = "returned"
C1_StopLeavesNothing ==
    [][StopReturnsNow =>
          (connections' = << >> /\ ln' = "closed" /\ ~ReadLoopRunning')]_vars

\* ------------------------------------------------------------------ C2
\* C2: once Stop has been called on a listening server it returns, when the
\* Start task and the Stop task are scheduled fairly.
C2_StopTerminates == (stopPC = "iter") ~> (stopPC = "returned")

\* ------------------------------------------------------------------ C3
InRegistry(h) == \E id \in DOMAIN connections : connections[id] = h

\* C3 (as stated): every registry entry refers to an open connection, and
\* every open connection whose read loop is running is in the registry.
C3_RegistryIsExactlyLive ==
    /\ \A id \in DOMAIN connections : connState[connections[id]] = "open"
    /\ (ReadLoopRunning /\ connState[conn] = "open") => InRegistry(conn)

\* C3 (amended): every open connection whose read loop is running is in the
\* registry, and a registry entry refers to an open connection unless Stop
\* has closed that entry's connection or the entry's own cleanup has closed
\* it and is about to delete the entry.
C3_RegistryCoversLive ==
    /\ \A id \in DOMAIN connections :
          \/ connState[connections[id]] = "open"
          \/ id \in stopVisited
          \/ id = connId /\ startPC = "delete"
    /\ (ReadLoopRunning /\ connState[conn] = "open") => InRegistry(conn)

\* an entry whose connection its own cleanup has closed, Stop not involved
C3_Witness ==
    /\ stopPC = "idle" /\ startPC = "delete"
    /\ connId \in DOMAIN connections
    /\ connState[connections[connId]] = "closed"

\* ------------------------------------------------------------------ C4
\* C4: the id counter never decreases, and an id that is issued is larger
\* than every id issued before and is not a key of the registry.
C4_IdsUniqueIncreasing ==
    [][/\ countConn' >= countConn
       /\ (issued' # issued =>
             LET id == issued'[Len(issued')]
             IN  /\ id \notin DOMAIN connections
                 /\ \A i \in 1 .. Len(issued) : issued[i] < id)]_vars

\* a second id issued after the first session has disconnected
C4_Witness ==
    /\ Len(issued) = 2
    /\ issued[1] \notin DOMAIN connections
    /\ issued[2] \in DOMAIN connections

\* ------------------------------------------------------------------ C5
\* C5: while a session's read loop is blocked on a connected, silent client
\* and a second client is waiting on the open listener, the accept loop can
\* accept that client.
C5_AcceptWhileReading ==
    (/\ Running /\ isAlive /\ ln = "open" /\ backlog > 0
     /\ ReadLoopRunning
     /\ connState[conn] = "open" /\ ~peerClosed[conn] /\ inbox[conn] = << >>)
        => ENABLED StartAccept

\* ------------------------------------------------------------------ C6
\* C6: onConnected is invoked at most once per connection, on a connection
\* that is in the registry and has not been read from; a connection that has
\* been read from or has had a packet delivered has had it invoked once.
C6_ConnectedOnceBeforeRead ==
    /\ [](\A h \in Handles :
            /\ connectedCount[h] <= 1
            /\ (readCount[h] > 0 \/ delivered[h] # << >>) => connectedCount[h] = 1)
    /\ [][\A h \in Handles :
            connectedCount'[h] # connectedCount[h] =>
               /\ InRegistry(h)
               /\ connectedCount[h] = 0
               /\ readCount[h] = 0]_vars

\* a session that got its onConnected and then a packet
C6_Witness ==
    \E h \in Handles : connectedCount[h] = 1 /\ delivered[h] # << >>

\* ------------------------------------------------------------------ C7
\* C7: a failed Accept, transient or caused by the closed listener, does not
\* bring the server down and nothing is called on the absent connection.
C7_FailedAcceptIsHarmless ==
    /\ panicking \notin {"nilConnFault", "nilConnClosed"}
    /\ crashed \notin {"nilConnFault", "nilConnClosed"}

\* ------------------------------------------------------------------ C8
\* C8: a read of fewer bytes than the header ends only that connection's
\* task: the Start task does not panic on the slice.
C8_ShortReadEndsOnlyConnection ==
    /\ panicking # "sliceBounds"
    /\ crashed # "sliceBounds"

\* ------------------------------------------------------------------ C9
ReadErrorNow ==
    /\ startPC = "read"
    /\ readCount'[conn] = readCount[conn] + 1
    /\ inbox' = inbox

\* C9: with Stop not called, a read error or remote close takes the task to
\* its cleanup; the cleanup closes the connection, removes its id and goes
\* back to the accept loop, and the server stays listening and alive.
C9_ReadErrorEndsOnlyConnection ==
    [][stopPC = "idle" =>
         /\ ReadErrorNow => (startPC' = "closeConn" /\ panicking' = "none")
         /\ (startPC = "release" /\ startPC' # "release") =>
               /\ startPC' = "loopTest"
               /\ connState'[conn] = "closed"
               /\ connId \notin DOMAIN connections'
               /\ isAlive' /\ ln' = "open"]_vars

\* ------------------------------------------------------------------ C10
\* C10: when the bind fails Start returns the error with the alive flag
\* false, the accept loop not entered and no coordinator unit outstanding.
C10_BindFailureLeavesNothing ==
    startErr => (startPC = "returned" /\ ~isAlive /\ nAccepted = 0 /\ wg = 0)

\* ------------------------------------------------------------------ C11
\* a Read on h that returned a chunk of at least the header length
FrameReadNow(h) ==
    /\ readLog'[h] # readLog[h]
    /\ Len(Head(inbox[h])) >= HeaderLen

WireBytes(call) ==
    IF call.op = "Write" THEN Encrypt(sessEncrypter, call.data) ELSE call.data

\* C12: Session.Write(payload) puts encode(payload) on the transport in
\* exactly one wire write and Session.WriteRaw(payload) puts payload there
\* unchanged in exactly one wire write (so that with the default codec both
\* put the same bytes on the wire).
C12_WriteEncodesOnce ==
    [][(nCalls' # nCalls /\ lastCall'.op \in {"Write", "WriteRaw"}
                        /\ ~lastCall'.err)
          => wire' = [wire EXCEPT ![lastCall'.target] =
                                     Append(@, WireBytes(lastCall'))]]_vars

\* ------------------------------------------------------------------ C13
\* C13: WriteToAll is a best-effort fan-out: whatever the order of the walk
\* and wherever a session with a broken transport stands in it, every other
\* registered session gets exactly one Session.Write of the payload, the
\* sessions outside the registry get nothing, and the caller gets no error.
C13_FanOutIsBestEffort ==
    [][(nCalls' # nCalls /\ lastCall'.op = "WriteToAll")
          => /\ ~lastCall'.err
             /\ \A h \in Sessions :
                   wire'[h] = IF h \in sessRegistry
                                 THEN WriteOut(wire, h, lastCall'.data)[h]
                                 ELSE wire[h]]_vars

\* a full registry with exactly one broken session has been written to, and
\* all the others received the payload
C13_Witness ==
    /\ lastCall.op = "WriteToAll"
    /\ nCalls = 1
    /\ Cardinality(sessRegistry) = MaxSessions
    /\ Cardinality(sessRegistry \cap sessBroken) = 1
    /\ \A h \in sessRegistry \ sessBroken : wire[h] = <<lastCall.data>>
    /\ \A h \in sessBroken : wire[h] = << >>

\* ------------------------------------------------------------------ C14
\* C14: the counter of the wait group never goes negative and every unit is
\* released exactly once: the listener's unit only by the exit of the accept
\* loop (line 135), a connection's unit only by that connection's own cleanup
\* (line 174), never by Stop.
C14_UnitsReleasedOnce ==
    [][/\ wg' >= 0
       /\ (wg' < wg => startPC \in {"release", "deferDone"})]_vars

\* ------------------------------------------------------------------ C15
\* C15: access to the registry and to the id counter is mutually exclusive:
\* the accept loop never inserts into s.connections, and no cleanup deletes
\* from it, while Stop is ranging over it, and the counter is read and
\* incremented by one task at a time.
C15_RegistryAccessExclusive ==
    [][(connections' # connections \/ countConn' # countConn)
          => (~MapRace /\ startPC \in {"insert", "delete"})]_vars

\* ------------------------------------------------------------------ C16
\* Stop has cleared s.isAlive (line 188 is behind it)
StopClearedAlive == stopPC \in {"closeLn", "waitCall", "waiting", "returned"}

\* C16: once Stop has cleared the alive flag, no session is inserted into the
\* registry and no onConnected is invoked any more, also when a client
\* connects between Stop's pass over the registry and the close of the
\* listener; and a connection that Stop did not close is not left open.
C16_NoSessionAfterStop ==
    /\ [][StopClearedAlive => /\ issued' = issued
                              /\ connectedCount' = connectedCount]_vars
    /\ [](stopPC = "returned"
            => \A h \in Handles : connState[h] # "open")

\* ------------------------------------------------------------------ C17
\* the positions of the Start goroutine inside the accept loop (lines 139-175)
InAcceptLoop(pc) ==
    pc \in {"loopTest", "add", "accept", "insert", "onConnected", "read",
            "closeConn", "delete", "release"}

\* C17: s.isAlive is false until the bind succeeds, becomes true exactly at
\* the successful bind, is set false only by Stop and never becomes true
\* again; and the accept loop is left only when the flag is false.
C17_AliveFlagLifecycle ==
    /\ [](ln = "nil" => ~isAlive)
    /\ [][(~isAlive /\ isAlive') => (startPC = "init" /\ ln' = "open"
                                      /\ stopPC = "idle")]_vars
    /\ [][(isAlive /\ ~isAlive') => (stopPC = "iter" /\ stopPC' = "closeLn")]_vars
    /\ [][(InAcceptLoop(startPC) /\ ~InAcceptLoop(startPC')) => ~isAlive]_vars

\* ------------------------------------------------------------------ C18
\* C18: the listener is closed by Stop and by the exit of the accept loop, and
\* the two closes are idempotent: Stop's result is the error of its own
\* listener close only (never that of closing a client), and it is nil in a
\* shutdown without faults, also when the accept loop closed the listener
\* first.
C18_StopReturnsNilOnShutdown ==
    /\ [][stopErr' # stopErr => stopPC = "closeLn"]_vars
    /\ []((stopPC = "returned" /\ panicking = "none" /\ crashed = "none")
            => ~stopErr)

\* ------------------------------------------------------------------ C19
\* the payloads of the frames among the chunks read, in the order of reading
RECURSIVE PayloadsOf(_)
PayloadsOf(chunks) ==
    IF chunks = << >> THEN << >>
    ELSE LET chunk == Head(chunks)
             rest == PayloadsOf(Tail(chunks))
         IN  IF Len(chunk) < HeaderLen THEN rest
             ELSE <<Decrypt([i \in 1 .. (Len(chunk) - HeaderLen)
                                |-> chunk[HeaderLen + i]])>> \o rest

\* C19: the callbacks of one session are strictly sequential: they are all
\* made by the one task serving that session, onConnected before any
\* onPacket, and the onPacket calls come in the order the frames were read.
C19_CallbacksInReadOrder ==
    /\ [](\A h \in Handles :
            /\ delivered[h] = PayloadsOf(readLog[h])
            /\ (delivered[h] # << >> => connectedCount[h] = 1))
    /\ [][\A h \in Handles :
            (delivered'[h] # delivered[h] \/ connectedCount'[h] # connectedCount[h])
               => /\ conn = h
                  /\ startPC \in {"onConnected", "read"}
                  /\ (delivered'[h] = delivered[h]
                        \/ connectedCount'[h] = connectedCount[h])]_vars

\* two frames with different payloads have been delivered on one session
C19_Witness ==
    \E h \in Handles :
        /\ Len(delivered[h]) = 2
        /\ delivered[h][1] # delivered[h][2]

\* ------------------------------------------------------------------ C20
\* C20: on a server built with WithLoggers(logger, errLogger), logger non-nil,
\* the error sink is set whether errLogger is nil or not: logging a read
\* error never calls an unset sink, and the failed connection goes on to its
\* cleanup.
C20_ErrorSinkIsSet ==
    /\ [][ReadErrorNow => (errLogSet /\ startPC' = "closeConn")]_vars
    /\ [](panicking # "nilErrLog" /\ crashed # "nilErrLog")

====
